---- MODULE Spec2Model ----
(***************************************************************************)
(* Model of pi_estimates/Cython_and_Numba/single_test_run.py: the command  *)
(* line harness (main, positive_integer, run_test) and the Monte Carlo     *)
(* estimator estimate_pi_numba.  The cython estimator lives in             *)
(* estimate_pi_cython.pyx; its model follows the estimator contract of the *)
(* design document (sections 2 and 4.1).                                   *)
(*                                                                         *)
(* Numbers.  random() yields r/RandGrid for r in 0..RandGrid-1, so a       *)
(* coordinate is kept as the integer RandGrid*x.  The clock counts ticks   *)
(* of 1/TicksPerSecond seconds from run_test's first reading of it.  A     *)
(* float that the program only prints is kept as an exact fraction         *)
(* num/den.  The defaults of --n_points and --n_repeats (10_000_000 and    *)
(* 10) lie beyond the runs explored: both arguments are always given.      *)
(***************************************************************************)
EXTENDS Integers, Sequences, FiniteSets, TLC

VARIABLES
    pc,           \* position of the program
    argv,         \* the command line: raw strings, before parsing
    n_points,     \* run_test's arguments, as parsed by main
    n_repeats,
    only_time,
    jit,
    start_time,   \* run_test's local start_time
    rep,          \* how many iterations of run_test's for loop have begun
    frame,        \* the locals of the current (or last) estimator call
    caller,       \* who the estimator returns to
    rng,          \* generator state: the outputs to come where the state is known
                  \* (seeded), and how many outputs have been consumed
    sampled,      \* history: the points the current (or last) estimator call
                  \* sampled, counted by where they lie
    ret,          \* the value the last estimator call returned
    calls,        \* history: the estimator invocations, in order
    returned,     \* history: how many invocations have returned
    stdout,       \* the lines written to standard output
    exit_status,  \* the process's exit status, -1 while running
    error,        \* the exception that ended the program, "" if none
    seed,         \* seeded test: the generator state both executions start from
    det,          \* seeded test: n and the two show_estimate values
    first         \* seeded test: what the first execution computed

vars == <<pc, argv, n_points, n_repeats, only_time, jit, start_time, rep, frame,
          caller, rng, sampled, ret, calls, returned, stdout, exit_status, error, seed, det, first>>

harnessVars == <<argv, n_points, n_repeats, only_time, jit, start_time, rep>>
testVars == <<seed, det, first>>

----------------------------------------------------------------------------
(* Bounds of the model *)

MaxPoints == 3
MaxRepeats == 3
MaxClock == 3
RandGrid == 2

\* the resolution of the clock readings of time.time()
TicksPerSecond == 10000

----------------------------------------------------------------------------
(* Strings, numbers and their conversions *)

Digits == <<"0", "1", "2", "3", "4", "5", "6", "7", "8", "9">>

DigitChar(d) == Digits[d + 1]

IsDigit(c) == \E d \in 0..9 : Digits[d + 1] = c

DigitValue(c) == CHOOSE d \in 0..9 : Digits[d + 1] = c

Abs(n) == IF n < 0 THEN -n ELSE n

RECURSIVE Pow10(_)
Pow10(e) == IF e <= 0 THEN 1 ELSE 10 * Pow10(e - 1)

RECURSIVE NumDigits(_)
NumDigits(n) == IF n < 10 THEN 1 ELSE 1 + NumDigits(n \div 10)

RECURSIVE IntDigits(_)
IntDigits(n) == IF n < 10 THEN <<DigitChar(n)>>
                ELSE Append(IntDigits(n \div 10), DigitChar(n % 10))

\* n written with at least w digits, zero padded on the left
RECURSIVE PadDigits(_, _)
PadDigits(n, w) == IF w <= 1 THEN IntDigits(n)
                   ELSE IF NumDigits(n) >= w THEN IntDigits(n)
                   ELSE <<"0">> \o PadDigits(n, w - 1)

\* num/den (den > 0) rounded to the nearest integer, ties to even
RoundHalfEven(num, den) ==
    LET q == num \div den
        r == num % den
    IN  IF 2 * r < den THEN q
        ELSE IF 2 * r > den THEN q + 1
        ELSE IF q % 2 = 0 THEN q ELSE q + 1

RECURSIVE DigitsValue(_)
DigitsValue(s) == IF s = <<>> THEN 0
                  ELSE 10 * DigitsValue(SubSeq(s, 1, Len(s) - 1)) + DigitValue(s[Len(s)])

AllDigits(s) == s # <<>> /\ \A k \in 1..Len(s) : IsDigit(s[k])

\* int(value): an optional sign and decimal digits, ValueError otherwise
IntOfString(s) ==
    IF s # <<>> /\ s[1] \in {"-", "+"}
    THEN IF AllDigits(Tail(s))
         THEN [ok |-> TRUE,
               val |-> IF s[1] = "-" THEN -DigitsValue(Tail(s)) ELSE DigitsValue(Tail(s))]
         ELSE [ok |-> FALSE, val |-> 0]
    ELSE IF AllDigits(s) THEN [ok |-> TRUE, val |-> DigitsValue(s)]
         ELSE [ok |-> FALSE, val |-> 0]

\* f"{num/den:.4f}": sign, integer part, point, four fractional digits
Format4f(num, den) ==
    LET n == IF den < 0 THEN -num ELSE num
        d == Abs(den)
        scaled == Abs(RoundHalfEven(n * 10000, d))
    IN  (IF n < 0 THEN <<"-">> ELSE <<>>)
        \o IntDigits(scaled \div 10000) \o <<".">> \o PadDigits(scaled % 10000, 4)

\* f"{n:.2e}" of an integer n: d.dde+XX
Format2e(n) ==
    LET a == Abs(n)
        e0 == IF a = 0 THEN 0 ELSE NumDigits(a) - 1
        m0 == IF e0 <= 2 THEN a * Pow10(2 - e0) ELSE RoundHalfEven(a, Pow10(e0 - 2))
        e == IF m0 = 1000 THEN e0 + 1 ELSE e0
        m == IF m0 = 1000 THEN 100 ELSE m0
    IN  (IF n < 0 THEN <<"-">> ELSE <<>>)
        \o <<DigitChar(m \div 100), ".">> \o PadDigits(m % 100, 2)
        \o <<"e", "+">> \o PadDigits(e, 2)

\* A float the program computes: None, or the fraction num/den
None == [none |-> TRUE, num |-> 0, den |-> 1]

Float(num, den) == [none |-> FALSE, num |-> num, den |-> den]

\* A line of standard output
Line(kind, value, text) == [kind |-> kind, value |-> value, text |-> text]

----------------------------------------------------------------------------
(* The random generator *)

\* The generator as the program finds it: seeded by the interpreter from
\* the system's entropy, so nothing is known of the outputs to come
NoRng == [stream |-> <<>>, pos |-> 0]

\* the generator states that a seed fixes for the next 2 * n outputs
Streams(n) == [1..(2 * n) -> 0..(RandGrid - 1)]

\* what random() can yield next, times RandGrid: the output the state fixes,
\* or any output when the state is not known
NextOutputs(r) == IF r.stream = <<>> THEN 0..(RandGrid - 1) ELSE {Head(r.stream)}

\* the generator after an output
Advance(r) == [stream |-> IF r.stream = <<>> THEN <<>> ELSE Tail(r.stream),
               pos |-> r.pos + 1]

\* random.uniform(a, b) = a + (b - a) * random(), times RandGrid
Uniform(a, b, r) == a * RandGrid + (b - a) * r

NoSamples == [inside |-> 0, on |-> 0, outside |-> 0]

\* the history of sampled points after the point (x, y), both times RandGrid
Sampled(h, x, y) ==
    LET d == x * x + y * y - RandGrid * RandGrid
    IN  IF d < 0 THEN [h EXCEPT !.inside = @ + 1]
        ELSE IF d = 0 THEN [h EXCEPT !.on = @ + 1]
        ELSE [h EXCEPT !.outside = @ + 1]

----------------------------------------------------------------------------
(* The estimators *)

NoFrame == [fn |-> "", n_points |-> 0, show_estimate |-> FALSE,
            within_circle |-> 0, i |-> 0, pi_estimate |-> None]

\* radius_squared = x**2 + y**2, times RandGrid^2
RadiusSquared(p) == p.x * p.x + p.y * p.y

\* a variant that leaves the boundary of the circle out
WithinCircleStrict(p) == RadiusSquared(p) < RandGrid * RandGrid

\* if radius_squared <= 1
WithinCircle(p) == RadiusSquared(p) <= RandGrid * RandGrid

\* a variant that counts a point inside the circle twice
CountedTwice(within_circle, p) ==
    IF WithinCircle(p) THEN within_circle + 2 ELSE within_circle

\* if radius_squared <= 1: within_circle += 1
Counted(within_circle, p) ==
    IF WithinCircle(p) THEN within_circle + 1 ELSE within_circle

\* a variant that prints as the docstring of show_estimate says
PrintsEstimateAsDocumented(show_estimate) == show_estimate

\* a variant that prints whatever show_estimate is
PrintsEstimateAlways(show_estimate) == TRUE

\* if not show_estimate: print(...)
PrintsEstimate(show_estimate) == ~show_estimate

\* a variant that leaves the loop one iteration early
LoopStopsEarly(i, n) == i < n - 1

\* for _ in range(n_points): is there another iteration
LoopContinues(i, n) == i < n

\* a variant that does not reset the counter
NumbaEntryKeepsCount(n, show) ==
    [fn |-> "estimate_pi_numba", n_points |-> n, show_estimate |-> show,
     within_circle |-> frame.within_circle, i |-> 0, pi_estimate |-> None]

\* entry of estimate_pi_numba: the parameters are bound, within_circle = 0
NumbaEntry(n, show) ==
    [fn |-> "estimate_pi_numba", n_points |-> n, show_estimate |-> show,
     within_circle |-> 0, i |-> 0, pi_estimate |-> None]

\* where an estimator call continues after its return
ReturnTo(c) == IF c = "run_test" THEN "loop" ELSE "test_returned"

\* one iteration of the sampling loop of estimate_pi_numba
EstimatePiNumbaIter ==
    /\ pc = "estimate"
    /\ frame.fn = "estimate_pi_numba"
    /\ LoopContinues(frame.i, frame.n_points)
    /\ \E r1 \in NextOutputs(rng) : \E r2 \in NextOutputs(Advance(rng)) :
         LET p == [x |-> Uniform(-1, 1, r1), y |-> Uniform(-1, 1, r2)]
         IN  /\ frame' = [frame EXCEPT
                            !.i = @ + 1,
                            !.within_circle = Counted(@, p)]
             /\ sampled' = Sampled(sampled, p.x, p.y)
    /\ rng' = Advance(Advance(rng))
    /\ UNCHANGED <<pc, caller, ret, calls, returned, stdout, exit_status, error>>
    /\ UNCHANGED harnessVars
    /\ UNCHANGED testVars

\* after the loop: pi_estimate, the print, and the return of None
EstimatePiNumbaFinish ==
    /\ pc = "estimate"
    /\ frame.fn = "estimate_pi_numba"
    /\ ~LoopContinues(frame.i, frame.n_points)
    /\ LET pi_estimate == Float(4 * frame.within_circle, frame.n_points)
       IN  /\ frame' = [frame EXCEPT !.pi_estimate = pi_estimate]
           /\ stdout' = IF PrintsEstimate(frame.show_estimate)
                        THEN Append(stdout, Line("estimate", pi_estimate,
                                                 <<"Final Estimation of Pi=">>))
                        ELSE stdout
    /\ ret' = None
    /\ returned' = returned + 1
    /\ pc' = ReturnTo(caller)
    /\ UNCHANGED <<caller, rng, sampled, calls, exit_status, error>>
    /\ UNCHANGED harnessVars
    /\ UNCHANGED testVars

\* entry of estimate_pi_cython.estimate_pi, as the estimator contract has it
CythonEntry(n, show) ==
    [fn |-> "estimate_pi_cython.estimate_pi", n_points |-> n, show_estimate |-> show,
     within_circle |-> 0, i |-> 0, pi_estimate |-> None]

EstimatePiCythonIter ==
    /\ pc = "estimate"
    /\ frame.fn = "estimate_pi_cython.estimate_pi"
    /\ frame.i < frame.n_points
    /\ \E r1 \in NextOutputs(rng) : \E r2 \in NextOutputs(Advance(rng)) :
         LET p == [x |-> Uniform(-1, 1, r1), y |-> Uniform(-1, 1, r2)]
         IN  /\ frame' = [frame EXCEPT
                            !.i = @ + 1,
                            !.within_circle = IF p.x * p.x + p.y * p.y <= RandGrid * RandGrid
                                              THEN @ + 1 ELSE @]
             /\ sampled' = Sampled(sampled, p.x, p.y)
    /\ rng' = Advance(Advance(rng))
    /\ UNCHANGED <<pc, caller, ret, calls, returned, stdout, exit_status, error>>
    /\ UNCHANGED harnessVars
    /\ UNCHANGED testVars

EstimatePiCythonReturn ==
    /\ pc = "estimate"
    /\ frame.fn = "estimate_pi_cython.estimate_pi"
    /\ frame.i >= frame.n_points
    /\ frame' = [frame EXCEPT !.pi_estimate = Float(4 * frame.within_circle, frame.n_points)]
    /\ ret' = Float(4 * frame.within_circle, frame.n_points)
    /\ returned' = returned + 1
    /\ pc' = ReturnTo(caller)
    /\ UNCHANGED <<caller, rng, sampled, calls, stdout, exit_status, error>>
    /\ UNCHANGED harnessVars
    /\ UNCHANGED testVars

----------------------------------------------------------------------------
(* run_test *)

fcns == [numba |-> "estimate_pi_numba", cython |-> "estimate_pi_cython.estimate_pi"]

Entry(fn, n, show) == IF fn = "estimate_pi_numba" THEN NumbaEntry(n, show)
                      ELSE CythonEntry(n, show)

\* a variant that runs one repeat too few
RepeatStopsEarly(r, n) == r < n - 1

\* for _ in range(n_repeats): is there another repeat
RepeatContinues(r, n) == r < n

\* what time.time() can read after the first reading, which is taken as the
\* origin of the clock; a wall clock that is set back reads less than before
ClockReadings == (-MaxClock)..MaxClock

\* start_time = time.time()
RunTestEnter ==
    /\ pc = "run_test"
    /\ start_time' = 0
    /\ rep' = 0
    /\ pc' = "loop"
    /\ UNCHANGED <<argv, n_points, n_repeats, only_time, jit>>
    /\ UNCHANGED <<frame, caller, rng, sampled, ret, calls, returned, stdout, exit_status, error>>
    /\ UNCHANGED testVars

\* fcns[jit](n_points, only_time)
RunTestCall ==
    /\ pc = "loop"
    /\ RepeatContinues(rep, n_repeats)
    /\ rep' = rep + 1
    /\ IF jit \in DOMAIN fcns
       THEN /\ frame' = Entry(fcns[jit], n_points, only_time)
            /\ sampled' = NoSamples
            /\ calls' = Append(calls, [fn |-> fcns[jit], n_points |-> n_points,
                                       show_estimate |-> only_time])
            /\ caller' = "run_test"
            /\ pc' = "estimate"
            /\ UNCHANGED <<exit_status, error>>
       ELSE /\ pc' = "error"
            /\ error' = "KeyError"
            /\ exit_status' = 1
            /\ UNCHANGED <<frame, sampled, calls, caller>>
    /\ UNCHANGED <<argv, n_points, n_repeats, only_time, jit, start_time>>
    /\ UNCHANGED <<rng, ret, returned, stdout>>
    /\ UNCHANGED testVars

\* a variant that leaves the sample count out
ReportLinesWithoutCount(now) ==
    LET average == Format4f(now - start_time, TicksPerSecond * n_repeats)
    IN  IF only_time
        THEN <<Line("time", None, average)>>
        ELSE <<Line("sentence", None,
                    <<"Estimating pi took ">> \o average \o <<" seconds per run.">>)>>

\* the lines run_test prints after the loop; now is the clock at the print
ReportLines(now) ==
    LET average == Format4f(now - start_time, TicksPerSecond * n_repeats)
    IN  IF only_time
        THEN <<Line("time", None, average)>>
        ELSE <<Line("count", None, <<"Test run was done with ">> \o Format2e(n_points)),
               Line("sentence", None,
                    <<"Estimating pi took ">> \o average \o <<" seconds per run.">>)>>

RunTestReport ==
    /\ pc = "loop"
    /\ ~RepeatContinues(rep, n_repeats)
    /\ IF n_repeats # 0
       THEN /\ \E now \in ClockReadings : stdout' = stdout \o ReportLines(now)
            /\ pc' = "done"
            /\ exit_status' = 0
            /\ UNCHANGED error
       ELSE /\ stdout' = IF only_time THEN stdout
                         ELSE Append(stdout,
                                Line("count", None,
                                     <<"Test run was done with ">> \o Format2e(n_points)))
            /\ pc' = "error"
            /\ error' = "ZeroDivisionError"
            /\ exit_status' = 1
    /\ UNCHANGED harnessVars
    /\ UNCHANGED <<frame, caller, rng, sampled, ret, calls, returned>>
    /\ UNCHANGED testVars

----------------------------------------------------------------------------
(* main and positive_integer *)

\* a variant that lets the value of the help text through
JitChoicesWithNone == {"numba", "cython", "none"}

JitChoices == {"numba", "cython"}

DefaultJit == "cython"

\* a variant that rejects zero only
NotPositiveZeroOnly(int_value) == int_value = 0

\* if int_value <= 0: raise
NotPositive(int_value) == int_value <= 0

positive_integer(value) ==
    LET int_value == IntOfString(value)
    IN  IF ~int_value.ok THEN [ok |-> FALSE, val |-> 0, error |-> "ValueError"]
        ELSE IF NotPositive(int_value.val)
             THEN [ok |-> FALSE, val |-> 0, error |-> "ArgumentTypeError"]
             ELSE [ok |-> TRUE, val |-> int_value.val, error |-> ""]

\* --jit: the given value checked against choices, or the default
ParseJit(arg) ==
    IF arg = <<>> THEN [ok |-> TRUE, val |-> DefaultJit, error |-> ""]
    ELSE IF arg[1] \in JitChoices THEN [ok |-> TRUE, val |-> arg[1], error |-> ""]
         ELSE [ok |-> FALSE, val |-> arg[1], error |-> "invalid choice"]

\* the errors parse_args can stop at, one per offending argument
ParseErrors(a) ==
    {positive_integer(a.n_points).error, positive_integer(a.n_repeats).error,
     ParseJit(a.jit).error} \ {""}

\* parse_args rejects the command line: a message on stderr, exit status 2
MainReject ==
    /\ pc = "main"
    /\ \E e \in ParseErrors(argv) : error' = e
    /\ pc' = "error"
    /\ exit_status' = 2
    /\ UNCHANGED harnessVars
    /\ UNCHANGED <<frame, caller, rng, sampled, ret, calls, returned, stdout>>
    /\ UNCHANGED testVars

\* parse_args succeeds and main calls run_test
MainAccept ==
    /\ pc = "main"
    /\ ParseErrors(argv) = {}
    /\ n_points' = positive_integer(argv.n_points).val
    /\ n_repeats' = positive_integer(argv.n_repeats).val
    /\ only_time' = argv.only_time
    /\ jit' = ParseJit(argv.jit).val
    /\ pc' = "run_test"
    /\ UNCHANGED <<argv, start_time, rep>>
    /\ UNCHANGED <<frame, caller, rng, sampled, ret, calls, returned, stdout, exit_status, error>>
    /\ UNCHANGED testVars

----------------------------------------------------------------------------
(* The program *)

\* the strings tried for an integer argument, accepted values up to max
ArgStrings(max) ==
    {<<"0">>, <<"-", "5">>, <<"x">>} \cup {IntDigits(k) : k \in 1..max}

JitArgs == {<<>>, <<"numba">>, <<"cython">>, <<"none">>}

Argvs == [n_points : ArgStrings(MaxPoints), n_repeats : ArgStrings(MaxRepeats),
          jit : JitArgs, only_time : BOOLEAN]

NoDet == [n |-> 0, show1 |-> FALSE, show2 |-> FALSE]

NoFirst == [set |-> FALSE, within_circle |-> 0, pi_estimate |-> None]

Idle ==
    /\ n_points = 0
    /\ n_repeats = 0
    /\ only_time = FALSE
    /\ jit = ""
    /\ start_time = 0
    /\ rep = 0
    /\ frame = NoFrame
    /\ caller = ""
    /\ rng = NoRng
    /\ sampled = NoSamples
    /\ ret = None
    /\ calls = <<>>
    /\ returned = 0
    /\ stdout = <<>>
    /\ exit_status = -1
    /\ error = ""
    /\ first = NoFirst

Init ==
    /\ pc = "main"
    /\ argv \in Argvs
    /\ seed = <<>>
    /\ det = NoDet
    /\ Idle

Next ==
    \/ MainReject
    \/ MainAccept
    \/ RunTestEnter
    \/ RunTestCall
    \/ RunTestReport
    \/ EstimatePiNumbaIter
    \/ EstimatePiNumbaFinish
    \/ EstimatePiCythonIter
    \/ EstimatePiCythonReturn

Spec == Init /\ [][Next]_vars

\* the program is never suspended: a step that can be taken is taken
SpecFair == Spec /\ WF_vars(Next)

----------------------------------------------------------------------------
(* The seeded test of the estimator: the generator is seeded, estimate_pi_numba
   runs, the generator is seeded again with the same seed, and it runs again *)

Dets == [n : 1..MaxPoints, show1 : BOOLEAN, show2 : BOOLEAN]

InitSeeded ==
    /\ pc = "seeded_test"
    /\ det \in Dets
    /\ seed \in Streams(det.n)
    /\ argv = [n_points |-> <<>>, n_repeats |-> <<>>, jit |-> <<>>, only_time |-> FALSE]
    /\ Idle

\* random.seed(seed); estimate_pi_numba(n, show1)
SeededFirst ==
    /\ pc = "seeded_test"
    /\ rng' = [stream |-> seed, pos |-> 0]
    /\ sampled' = NoSamples
    /\ frame' = NumbaEntry(det.n, det.show1)
    /\ calls' = Append(calls, [fn |-> "estimate_pi_numba", n_points |-> det.n,
                               show_estimate |-> det.show1])
    /\ caller' = "seeded_test"
    /\ pc' = "estimate"
    /\ UNCHANGED <<ret, returned, stdout, exit_status, error>>
    /\ UNCHANGED harnessVars
    /\ UNCHANGED testVars

\* the first result is noted; random.seed(seed); estimate_pi_numba(n, show2)
SeededSecond ==
    /\ pc = "test_returned"
    /\ ~first.set
    /\ first' = [set |-> TRUE, within_circle |-> frame.within_circle,
                 pi_estimate |-> frame.pi_estimate]
    /\ rng' = [stream |-> seed, pos |-> 0]
    /\ sampled' = NoSamples
    /\ frame' = NumbaEntry(det.n, det.show2)
    /\ calls' = Append(calls, [fn |-> "estimate_pi_numba", n_points |-> det.n,
                               show_estimate |-> det.show2])
    /\ caller' = "seeded_test"
    /\ pc' = "estimate"
    /\ UNCHANGED <<ret, returned, stdout, exit_status, error, seed, det>>
    /\ UNCHANGED harnessVars

\* both executions have returned
SeededCompare ==
    /\ pc = "test_returned"
    /\ first.set
    /\ pc' = "test_done"
    /\ UNCHANGED <<frame, caller, rng, sampled, ret, calls, returned, stdout, exit_status, error>>
    /\ UNCHANGED harnessVars
    /\ UNCHANGED testVars

NextSeeded ==
    \/ SeededFirst
    \/ SeededSecond
    \/ SeededCompare
    \/ EstimatePiNumbaIter
    \/ EstimatePiNumbaFinish

SpecSeeded == InitSeeded /\ [][NextSeeded]_vars

----------------------------------------------------------------------------
(* Reading the output back *)

KindCount(lines, kinds) == Cardinality({k \in 1..Len(lines) : lines[k].kind \in kinds})

HarnessKinds == {"time", "count", "sentence"}

Unsigned(text) == IF text # <<>> /\ text[1] = "-" THEN Tail(text) ELSE text

\* text is [-]d+.dddd
IsFixed4(text) ==
    LET b == Unsigned(text)
    IN  /\ Len(b) >= 6
        /\ b[Len(b) - 4] = "."
        /\ \A k \in 1..Len(b) : k # Len(b) - 4 => IsDigit(b[k])

\* the number of 1/10000ths a [-]d+.dddd text stands for, without its sign
Fixed4Value(text) ==
    LET b == Unsigned(text)
    IN  DigitsValue(SubSeq(b, 1, Len(b) - 5)) * 10000 + DigitsValue(SubSeq(b, Len(b) - 3, Len(b)))

\* text is the average (now - start_time) / n_repeats seconds for some clock
\* reading now, rounded to four fractional digits
IsAverage(text) ==
    /\ IsFixed4(text)
    /\ \E now \in (-MaxClock)..MaxClock :
         LET e == now - start_time
             v == Fixed4Value(text)
         IN  /\ (text[1] = "-") <=> (e < 0)
             /\ 2 * Abs(v * TicksPerSecond * n_repeats - Abs(e) * 10000)
                  <= TicksPerSecond * n_repeats

\* text is d.dde+dd and stands for n
IsScientific(text, n) ==
    /\ Len(text) = 8
    /\ text[2] = "." /\ text[5] = "e" /\ text[6] = "+"
    /\ \A k \in {1, 3, 4, 7, 8} : IsDigit(text[k])
    /\ text[1] # "0"
    /\ DigitsValue(<<text[1], text[3], text[4]>>) * Pow10(DigitsValue(<<text[7], text[8]>>))
         = 100 * n

\* of the points the last estimator call sampled, those with x*x + y*y <= 1
CountInside == sampled.inside + sampled.on

InRunTest == pc \in {"run_test", "loop", "estimate", "done"}

Accepted == ParseErrors(argv) = {}

----------------------------------------------------------------------------
(* The claims *)

\* C1: for an accepted configuration run_test invokes the selected estimator
\* exactly n_repeats times, one call after another (a call returns before the
\* next begins), each with the same n_points, and every call has returned
\* before run_test writes a line of its own.
C1_RepeatsInSequence ==
    InRunTest =>
        /\ Len(calls) <= n_repeats
        /\ \A k \in 1..Len(calls) :
             calls[k].n_points = n_points /\ calls[k].fn = fcns[jit]
        /\ IF pc = "estimate" THEN returned = Len(calls) - 1 ELSE returned = Len(calls)
        /\ KindCount(stdout, HarnessKinds) > 0 => returned = n_repeats
        /\ pc = "done" => Len(calls) = n_repeats /\ returned = n_repeats

C1_Witness ==
    /\ pc = "done"
    /\ n_repeats >= 2
    /\ Len(calls) = n_repeats
    /\ returned = n_repeats
    /\ KindCount(stdout, {"time"}) = 1

\* C2: in every estimator call of a run, within_circle is 0 when the call
\* begins and is incremented at most once per sampled point, so
\* 0 <= within_circle <= i <= n_points throughout, and the estimate, once
\* computed, printed or returned, lies in [0, 4].
C2_EstimateInRange ==
    LET InRange(v) == v.none \/ (v.den > 0 /\ 0 <= v.num /\ v.num <= 4 * v.den)
    IN  /\ frame.fn # "" =>
             /\ 0 <= frame.within_circle
             /\ frame.within_circle <= frame.i
             /\ frame.i <= frame.n_points
             /\ InRange(frame.pi_estimate)
        /\ InRange(ret)
        /\ \A k \in 1..Len(stdout) : InRange(stdout[k].value)

C2_Witness ==
    /\ pc = "loop"
    /\ returned >= 2
    /\ frame.fn = "estimate_pi_numba"
    /\ frame.within_circle = frame.n_points
    /\ frame.pi_estimate = Float(4 * frame.n_points, frame.n_points)

\* C3: an integer <= 0 given for n_points or n_repeats is rejected while the
\* arguments are parsed: run_test is never entered, no estimator is called,
\* nothing is written to standard output, and the program ends with an
\* invalid-argument error and a non-zero exit status.
C3_NonPositiveRejected ==
    LET NonPositive(str) == IntOfString(str).ok /\ IntOfString(str).val <= 0
    IN  (NonPositive(argv.n_points) \/ NonPositive(argv.n_repeats)) =>
            /\ pc \in {"main", "error"}
            /\ calls = <<>>
            /\ stdout = <<>>
            /\ pc = "error" =>
                 /\ exit_status = 2
                 /\ error \in {"ArgumentTypeError", "ValueError", "invalid choice"}

C3_Witness ==
    /\ pc = "error"
    /\ argv.n_points = <<"-", "5">>
    /\ error = "ArgumentTypeError"
    /\ exit_status = 2
    /\ stdout = <<>>

C8_SameSeedSameEstimate ==
    pc = "test_done" =>
        /\ first.within_circle = frame.within_circle
        /\ first.pi_estimate = frame.pi_estimate
        /\ ~frame.pi_estimate.none

C8_Witness ==
    /\ pc = "test_done"
    /\ det.show1 # det.show2
    /\ det.n >= 2
    /\ first.within_circle > 0
    /\ first.within_circle = frame.within_circle

C10_Terminates ==
    /\ Accepted => <>(pc = "done" /\ exit_status = 0)
    /\ [](/\ (frame.fn # "" /\ pc \in {"loop", "done"}) =>
               (frame.i = frame.n_points /\ rng.pos = 2 * frame.n_points * returned)
          /\ pc = "done" => (Len(calls) = n_repeats /\ returned = n_repeats))

C10_Witness ==
    /\ pc = "done"
    /\ exit_status = 0
    /\ n_repeats >= 2
    /\ frame.i = frame.n_points
    /\ frame.n_points >= 2
    /\ rng.pos = 2 * frame.n_points * n_repeats

====
